---- MODULE Spec2Model ----
(***************************************************************************)
(* Surge lookup argument (jolt-core/src/lasso/surge.rs).                   *)
(*                                                                         *)
(* The module models generate_witness statement by statement, the leaf and *)
(* tuple hooks of the memory-checking traits, and the transcript order of  *)
(* SurgeProof::prove and SurgeProof::verify.  The generic parameters C and *)
(* M, the field and the instruction plug-in are instantiated at a small    *)
(* scale; every width the code fixes (u16 addresses, u32 counters) is kept.*)
(***************************************************************************)
EXTENDS Integers, Sequences, FiniteSets, Bags, TLC

(***************************************************************************)
(* Generic parameters and widths                                           *)
(***************************************************************************)
\* const C: usize -- number of dimensions (chunks) of one lookup
C == 2
\* const M: usize -- size of every subtable
M == 4
\* Instruction::default().subtables(C, M).len()
NUM_SUBTABLES == 2
\* modulus of the scalar field F (a small prime standing for JoltField)
FieldModulus == 7
\* dim is a Vec<Vec<u16>>
U16Bits == 16
\* read_cts and final_cts are Vec<Vec<u32>>
U32Bits == 32

\* longest operation list explored
MaxOps == 3
\* rows explored from each starting count of a cell
MaxTouches == 3
\* largest C and largest number of subtables the index maps are explored for
MaxC == 4
MaxS == 4

Pow2(n) == 2 ^ n

Field == 0 .. (FieldModulus - 1)

FAdd(a, b) == (a + b) % FieldModulus
FSub(a, b) == (a - b) % FieldModulus
FMul(a, b) == (a * b) % FieldModulus
FSquare(a) == FMul(a, a)
\* F::from_u16 / F::from_u64 / SmallScalar::field_mul operand: reduce an integer
FromInt(n) == n % FieldModulus

AsU8(x) == x % Pow2(U16Bits \div 2)
\* `x as u16`
AsU16(x) == x % Pow2(U16Bits)

\* Numbers too wide for the integers at hand are kept as <<high, low>> with
\* low < 2^16: the value is high * 2^16 + low.
\* x + 1 on a usize: no wrap at any size reached
IncUsize(x) ==
    IF x[2] + 1 < Pow2(U32Bits \div 2) THEN <<x[1], x[2] + 1>> ELSE <<x[1] + 1, 0>>
\* x + 1 overflows a u32
OverflowsU32(x) == IncUsize(x)[1] >= Pow2(U32Bits \div 2)
\* x + 1 on a u32 where overflow checks are off: modulo 2^32
WrappingIncU32(x) == IF OverflowsU32(x) THEN <<0, 0>> ELSE IncUsize(x)
\* `ts + 1` on u32 counters.  A counter counts rows, so it is at most num_lookups,
\* far below 2^32 at every explored size; the sum is therefore the exact one.
AddU32(a, b) == a + b

(***************************************************************************)
(* usize helpers                                                           *)
(***************************************************************************)
RECURSIVE NextPow2From(_, _)
NextPow2From(p, n) == IF p >= n THEN p ELSE NextPow2From(2 * p, n)

NextPowerOfTwoStrict(n) == NextPow2From(1, n + 1)
\* usize::next_power_of_two: the smallest power of two >= n (1 for n = 0)
NextPowerOfTwo(n) == NextPow2From(1, n)

RECURSIVE Log2Ceil(_)
\* ark_std::log2 / Math::log_2: ceil(log2 n), exact on powers of two
Log2Ceil(n) == IF n <= 1 THEN 0 ELSE 1 + Log2Ceil((n + 1) \div 2)

(***************************************************************************)
(* Memory indexing                                                         *)
(***************************************************************************)
\* The three functions for any C = c and any number s of subtables:
\* fn num_memories() = C * subtables.len()
NumMemories(c, s) == c * s

MemoryToSubtableIndexCopyPaste(c, i) == i % c
\* fn memory_to_subtable_index(i) = i / C
MemoryToSubtableIndex(c, i) == i \div c

\* fn memory_to_dimension_index(i) = i % C
MemoryToDimensionIndex(c, i) == i % c

\* and at the C and the instruction of this instantiation
num_memories == NumMemories(C, NUM_SUBTABLES)
memory_to_subtable_index(i) == MemoryToSubtableIndex(C, i)
memory_to_dimension_index(i) == MemoryToDimensionIndex(C, i)

(***************************************************************************)
(* Instruction plug-in and preprocessing                                   *)
(***************************************************************************)
\* subtable.materialize(M): subtable 0 is XOR, subtable 1 is EQ, of the two
\* halves of the address bits
SubtableEntry(s, i) ==
    LET half == Pow2(Log2Ceil(M) \div 2)
        x == i \div half
        y == i % half
        xor == IF x = y THEN 0 ELSE 1
    IN IF s = 0 THEN xor ELSE 1 - xor

\* SurgePreprocessing::preprocess().materialized_subtables
materialized_subtables ==
    [s \in 0 .. (NUM_SUBTABLES - 1) |-> [i \in 0 .. (M - 1) |-> SubtableEntry(s, i)]]

\* Operations of the explored lists, each given by op.to_indices(C, log_M);
\* the last two decode to an address >= M in one dimension.
OpChoices ==
    { <<0, 0>>, <<0, 3>>, <<3, 1>>, <<2, 2>>, <<M, 0>>, <<1, M + 1>> }

\* op.to_indices(C, log_M)[dimension_index]
to_indices(op, dimension_index) == op[dimension_index + 1]

OpLists == UNION { [1 .. n -> OpChoices] : n \in 0 .. MaxOps }

\* the operations of the lists taken through prove and verify
ProtocolOpChoices == { <<0, 3>>, <<3, 1>>, <<M, 0>> }
ProtocolOpLists == UNION { [1 .. n -> ProtocolOpChoices] : n \in 0 .. MaxOps }

None == "None"
\* VerifierComputedOpening<T> = Option<T>: None is the empty tuple, Some(x) the
\* tuple of x; unwrap of None panics with UnwrapNone
NoneOpening == << >>
Some(x) == <<x>>
is_some(o) == o # NoneOpening
UnwrapNone == "called Option::unwrap() on a None value"
\* the outcome of an evaluation that panicked with msg
Panic(msg) == <<"panic", msg>>
\* a local holding a structure that is not yet assigned
Unset == << >>
Builds == {"debug", "release"}

Dims == 0 .. (C - 1)
Memories == 0 .. (num_memories - 1)
Addresses == 0 .. (M - 1)

(***************************************************************************)
(* Multilinear polynomials over the hypercube                              *)
(***************************************************************************)
RECURSIVE FSumTo(_, _)
\* sum in F of f[0] .. f[n-1]
FSumTo(f, n) == IF n = 0 THEN 0 ELSE FAdd(FSumTo(f, n - 1), f[n - 1])

\* bit i (1 = most significant) of x written on n bits
BitOf(x, i, n) == (x \div Pow2(n - i)) % 2

\* the boolean point of row x on n variables, most significant variable first
Bits(x, n) == [i \in 1 .. n |-> BitOf(x, i, n)]

\* EqPolynomial::evals(r)[x] = prod_i (r_i x_i + (1 - r_i)(1 - x_i))
RECURSIVE EqTerm(_, _, _)
EqTerm(r, x, i) ==
    IF i > Len(r) THEN 1
    ELSE FMul(IF BitOf(x, i, Len(r)) = 1 THEN r[i] ELSE FSub(1, r[i]),
              EqTerm(r, x, i + 1))

EqEvals(r) == [x \in 0 .. (Pow2(Len(r)) - 1) |-> EqTerm(r, x, 1)]

\* PolynomialEvaluation::evaluate: the multilinear extension of the coefficient
\* vector poly (over 0 .. 2^n - 1) at the point r of n field elements
Evaluate(poly, r) ==
    LET eq == EqEvals(r)
        n == Pow2(Len(r))
    IN FSumTo([x \in 0 .. (n - 1) |-> FMul(FromInt(poly[x]), eq[x])], n)

\* IdentityPolynomial::new(n).evaluate(r) = sum_i r_i 2^(n - i)
IdentityEvaluate(r) ==
    FSumTo([i \in 0 .. (Len(r) - 1) |-> FMul(r[i + 1], FromInt(Pow2(Len(r) - 1 - i)))],
           Len(r))

\* subtable.evaluate_mle(r): the multilinear extension of the subtable
evaluate_mle(s, r) == Evaluate(materialized_subtables[s], r)

(***************************************************************************)
(* Memory-checking hooks: fingerprint, compute_leaves, the four tuple      *)
(* families and the verifier-computed openings                             *)
(***************************************************************************)
\* fn fingerprint(inputs: &(F, F, F), gamma, tau): t * gamma^2 + v * gamma + a - tau
fingerprint(inputs, gamma, tau) ==
    LET a == inputs[1]
        v == inputs[2]
        t == inputs[3]
    IN FSub(FAdd(FAdd(FMul(t, FSquare(gamma)), FMul(v, gamma)), a), tau)

\* rows of a witness: 0 .. polynomials.dim[0].len() - 1
RowsOf(polys) == DOMAIN polys.dim[0]

\* read_fingerprints of one memory (lines 178-185)
read_fingerprints(polys, memory_index, gamma, tau) ==
    LET dim_index == memory_to_dimension_index(memory_index)
        gamma_squared == FSquare(gamma)
    IN [i \in RowsOf(polys) |->
          LET a == polys.dim[dim_index][i]
              v == polys.E_polys[memory_index][i]
              t == polys.read_cts[dim_index][i]
          IN FSub(FAdd(FAdd(FMul(FromInt(t), gamma_squared), FMul(FromInt(v), gamma)),
                       FromInt(a)), tau)]

t_adjustment_gamma(gamma) == FMul(FromInt(1), gamma)
\* let t_adjustment = 1u64.field_mul(gamma_squared);
t_adjustment(gamma) == FMul(FromInt(1), FSquare(gamma))

\* write_fingerprints of one memory (lines 189-193)
write_fingerprints(polys, memory_index, gamma, tau) ==
    LET reads == read_fingerprints(polys, memory_index, gamma, tau)
    IN [i \in RowsOf(polys) |-> FAdd(reads[i], t_adjustment(gamma))]

\* init_fingerprints of one memory (lines 206-213)
init_fingerprints(memory_index, gamma, tau) ==
    LET subtable_index == memory_to_subtable_index(memory_index)
    IN [i \in Addresses |->
          FSub(FAdd(FMul(FromInt(materialized_subtables[subtable_index][i]), gamma),
                    FromInt(i)), tau)]

\* final_fingerprints of one memory (lines 214-222)
final_fingerprints(polys, memory_index, gamma, tau) ==
    LET dim_index == memory_to_dimension_index(memory_index)
        inits == init_fingerprints(memory_index, gamma, tau)
    IN [i \in Addresses |->
          FAdd(inits[i], FMul(FromInt(polys.final_cts[dim_index][i]), FSquare(gamma)))]

\* a Vec<F> from a function over 0 .. n-1
ToSeq(f) == [k \in 1 .. Cardinality(DOMAIN f) |-> f[k - 1]]

RECURSIVE ConcatGroups(_, _)
\* Vec<Vec<F>>::concat() of the groups produced for memories from .. num_memories-1
ConcatGroups(groups, from) ==
    IF from > num_memories - 1 THEN << >>
    ELSE groups[from][1] \o groups[from][2] \o ConcatGroups(groups, from + 1)

\* compute_leaves: ((read_write_leaves, 2 * num_memories), (init_final_leaves, ...))
compute_leaves(polys, gamma, tau) ==
    LET read_write ==
            [m \in Memories |->
                << ToSeq(read_fingerprints(polys, m, gamma, tau)),
                   ToSeq(write_fingerprints(polys, m, gamma, tau)) >>]
        init_final ==
            [m \in Memories |->
                << ToSeq(init_fingerprints(m, gamma, tau)),
                   ToSeq(final_fingerprints(polys, m, gamma, tau)) >>]
    IN << << ConcatGroups(read_write, 0), 2 * num_memories >>,
          << ConcatGroups(init_final, 0), 2 * num_memories >> >>

\* group g of a leaf batch (leaves, groups): the g-th of `groups` equal slices,
\* the input of one grand-product circuit
LeafGroup(batch, g) ==
    LET size == Len(batch[1]) \div batch[2]
    IN SubSeq(batch[1], g * size + 1, (g + 1) * size)

\* read_tuples: (dim[dim_index], E_polys[memory_index], read_cts[dim_index])
read_tuples(openings) ==
    [memory_index \in Memories |->
        LET dim_index == memory_to_dimension_index(memory_index)
        IN << openings.dim[dim_index],
              openings.E_polys[memory_index],
              openings.read_cts[dim_index] >>]

\* write_tuples: the read tuple with timestamp read_cts + F::one()
write_tuples(openings) ==
    [memory_index \in Memories |->
        LET dim_index == memory_to_dimension_index(memory_index)
        IN << openings.dim[dim_index],
              openings.E_polys[memory_index],
              FAdd(openings.read_cts[dim_index], 1) >>]

\* init_tuples: (a_init, v_init[subtable], 0); both unwraps panic on None
init_tuples(openings) ==
    IF is_some(openings.a_init_final) /\ is_some(openings.v_init_final)
    THEN LET a_init == openings.a_init_final[1]
             v_init == openings.v_init_final[1]
         IN [memory_index \in Memories |->
                << a_init, v_init[memory_to_subtable_index(memory_index)], 0 >>]
    ELSE Panic(UnwrapNone)

\* final_tuples: (a_init, v_init[subtable], final_cts[dim_index]); both unwraps
\* panic on None
final_tuples(openings) ==
    IF is_some(openings.a_init_final) /\ is_some(openings.v_init_final)
    THEN LET a_init == openings.a_init_final[1]
             v_init == openings.v_init_final[1]
         IN [memory_index \in Memories |->
                LET dim_index == memory_to_dimension_index(memory_index)
                IN << a_init, v_init[memory_to_subtable_index(memory_index)],
                      openings.final_cts[dim_index] >>]
    ELSE Panic(UnwrapNone)

\* the SurgeOpenings of a witness: dim, read_cts and E_polys opened at
\* r_read_write, final_cts at r_init_final; the verifier-only fields absent
OpeningsOf(polys, r_read_write, r_init_final) ==
    [ dim |-> [d \in Dims |-> Evaluate(polys.dim[d], r_read_write)],
      read_cts |-> [d \in Dims |-> Evaluate(polys.read_cts[d], r_read_write)],
      E_polys |-> [m \in Memories |-> Evaluate(polys.E_polys[m], r_read_write)],
      final_cts |-> [d \in Dims |-> Evaluate(polys.final_cts[d], r_init_final)],
      a_init_final |-> NoneOpening,
      v_init_final |-> NoneOpening ]

compute_verifier_openings_no_values(openings, r_init_final) ==
    [openings EXCEPT
        !.a_init_final = Some(IdentityEvaluate(r_init_final))]
\* compute_verifier_openings(openings, _, _r_read_write, r_init_final)
compute_verifier_openings(openings, r_init_final) ==
    [openings EXCEPT
        !.a_init_final = Some(IdentityEvaluate(r_init_final)),
        !.v_init_final = Some([s \in 0 .. (NUM_SUBTABLES - 1) |->
                                  evaluate_mle(s, r_init_final)])]

(***************************************************************************)
(* Fiat-Shamir transcript.  Its state is a running hash of everything      *)
(* appended or drawn; the log keeps the calls themselves, in order.        *)
(***************************************************************************)
TranscriptStates == FieldModulus * FieldModulus * FieldModulus

LabelCode(label) ==
    CASE label = "Surge transcript" -> 1
      [] label = "Surge" -> 2
      [] label = "SurgeMemCheck" -> 3

Mix(state, x) == (5 * state + x + 3) % TranscriptStates

\* ProofTranscript::new(label)
TranscriptNew(label) ==
    [ log |-> << <<"new", label>> >>, state |-> Mix(0, LabelCode(label)) ]

\* transcript.append_message(label)
AppendMessage(t, label) ==
    [ log |-> Append(t.log, <<"append_message", label>>),
      state |-> Mix(t.state, LabelCode(label)) ]

\* transcript.append_scalar(x)
AppendScalar(t, x) ==
    [ log |-> Append(t.log, <<"append_scalar", x>>), state |-> Mix(t.state, x) ]

RECURSIVE AppendScalars(_, _)
\* transcript.append_scalars(xs)
AppendScalars(t, xs) ==
    IF xs = << >> THEN t ELSE AppendScalars(AppendScalar(t, Head(xs)), Tail(xs))

\* transcript.challenge_scalar(): the value drawn and the transcript after it
ChallengeScalar(t) ==
    LET next == Mix(t.state, 0)
    IN [ value |-> (next \div FieldModulus) % FieldModulus,
         transcript |-> [ log |-> Append(t.log, <<"challenge_scalar">>), state |-> next ] ]

RECURSIVE ChallengeVector(_, _)
\* transcript.challenge_vector(n): n scalars drawn one after the other
ChallengeVector(t, n) ==
    IF n = 0 THEN [ values |-> << >>, transcript |-> t ]
    ELSE LET first == ChallengeScalar(t)
             rest == ChallengeVector(first.transcript, n - 1)
         IN [ values |-> <<first.value>> \o rest.values, transcript |-> rest.transcript ]

(***************************************************************************)
(* Instruction plug-in: combine_lookups and its degree                     *)
(***************************************************************************)
\* instruction.g_poly_degree(C)
g_poly_degree == 1

\* instruction.combine_lookups(vals, C, M): the concatenation-style weighted sum
\* sum_m 2^(num_memories - 1 - m) * vals[m]
combine_lookups(vals) ==
    FSumTo([m \in 0 .. (Len(vals) - 1) |->
               FMul(FromInt(Pow2(Len(vals) - 1 - m)), vals[m + 1])], Len(vals))

\* the closure combine_lookups_eq of prove: combine all values but the last,
\* times the last (the eq factor)
combine_lookups_eq(vals) ==
    FMul(combine_lookups(SubSeq(vals, 1, Len(vals) - 1)), vals[Len(vals)])

(***************************************************************************)
(* Sumcheck engine                                                         *)
(***************************************************************************)
RECURSIVE FPow(_, _)
FPow(a, e) == IF e = 0 THEN 1 ELSE FMul(a, FPow(a, e - 1))
FInv(a) == FPow(a, FieldModulus - 2)

RECURSIVE LagrangeTerm(_, _, _, _)
\* prod over j in 0 .. degree, j # k, from j on, of (x - j) / (k - j)
LagrangeTerm(x, k, j, degree) ==
    IF j > degree THEN 1
    ELSE IF j = k THEN LagrangeTerm(x, k, j + 1, degree)
    ELSE FMul(FMul(FSub(x, j), FInv(FSub(k, j))), LagrangeTerm(x, k, j + 1, degree))

\* the value at x of the polynomial of degree Len(evals) - 1 with evals[k + 1] at k
Interpolate(evals, x) ==
    LET degree == Len(evals) - 1
    IN FSumTo([k \in 0 .. degree |-> FMul(evals[k + 1], LagrangeTerm(x, k, 0, degree))],
              degree + 1)

\* every table with its top variable set to x: low + x * (high - low)
BindTop(polys, x) ==
    [i \in DOMAIN polys |->
        LET half == Cardinality(DOMAIN polys[i]) \div 2
        IN [b \in 0 .. (half - 1) |->
              FAdd(polys[i][b], FMul(x, FSub(polys[i][b + half], polys[i][b])))]]

\* one round polynomial, by its values at 0 .. degree
RoundEvals(polys, degree) ==
    LET half == Cardinality(DOMAIN polys[1]) \div 2
    IN [k \in 1 .. (degree + 1) |->
          LET bound == BindTop(polys, k - 1)
          IN FSumTo([b \in 0 .. (half - 1) |->
                        combine_lookups_eq([i \in DOMAIN polys |-> bound[i][b]])], half)]

RECURSIVE SumcheckProveRounds(_, _, _, _, _, _)
SumcheckProveRounds(polys, rounds_left, degree, transcript, round_polys, r) ==
    IF rounds_left = 0
    THEN [ proof |-> round_polys,
           r |-> r,
           openings |-> [i \in DOMAIN polys |-> polys[i][0]],
           transcript |-> transcript ]
    ELSE LET evals == RoundEvals(polys, degree)
             drawn == ChallengeScalar(AppendScalars(transcript, evals))
         IN SumcheckProveRounds(BindTop(polys, drawn.value), rounds_left - 1, degree,
                                drawn.transcript, Append(round_polys, evals),
                                Append(r, drawn.value))

\* SumcheckInstanceProof::prove_arbitrary(claim, num_rounds, polys, comb_func,
\* degree, transcript) -> (proof, r, final evaluations), with the transcript after
prove_arbitrary(num_rounds, polys, degree, transcript) ==
    SumcheckProveRounds(polys, num_rounds, degree, transcript, << >>, << >>)

RECURSIVE SumcheckVerifyRounds(_, _, _, _, _, _)
SumcheckVerifyRounds(round_polys, round, e, degree, transcript, r) ==
    IF round > Len(round_polys)
    THEN [ ok |-> TRUE, claim_last |-> e, r |-> r, transcript |-> transcript ]
    ELSE LET evals == round_polys[round]
         IN IF Len(evals) # degree + 1 \/ FAdd(evals[1], evals[2]) # e
            THEN [ ok |-> FALSE, claim_last |-> e, r |-> r, transcript |-> transcript ]
            ELSE LET drawn == ChallengeScalar(AppendScalars(transcript, evals))
                 IN SumcheckVerifyRounds(round_polys, round + 1,
                                         Interpolate(evals, drawn.value), degree,
                                         drawn.transcript, Append(r, drawn.value))

\* SumcheckInstanceProof::verify(claim, num_rounds, degree_bound, transcript)
\* -> Ok((final claim, r)) or Err
sumcheck_verify(round_polys, claim, num_rounds, degree_bound, transcript) ==
    IF Len(round_polys) # num_rounds
    THEN [ ok |-> FALSE, claim_last |-> claim, r |-> << >>, transcript |-> transcript ]
    ELSE SumcheckVerifyRounds(round_polys, 1, claim, degree_bound, transcript, << >>)

\* compute_primary_sumcheck_claim: sum over the hypercube of eq * combine(E_1 .. E_k)
compute_primary_sumcheck_claim(polys, eq) ==
    LET hypercube_size == Cardinality(DOMAIN polys.E_polys[0])
    IN FSumTo([eval_index \in 0 .. (hypercube_size - 1) |->
                  FMul(eq[eval_index],
                       combine_lookups([k \in 1 .. num_memories |->
                            FromInt(polys.E_polys[k - 1][eval_index])]))],
              hypercube_size)

(***************************************************************************)
(* Multisets of the memory-checking argument                               *)
(***************************************************************************)
\* the bag of the values of a sequence or of a function
BagOfSeq(q) == [v \in {q[k] : k \in DOMAIN q} |-> Cardinality({k \in DOMAIN q : q[k] = v})]

\* the openings of a witness at row j of the trace and at address i of the table
PointOpenings(polys, j, i) ==
    compute_verifier_openings(
        OpeningsOf(polys, Bits(j, Log2Ceil(Cardinality(RowsOf(polys)))),
                          Bits(i, Log2Ceil(M))),
        Bits(i, Log2Ceil(M)))

\* the (a, v, t) triples of memory m over the rows and over the addresses
ReadTriples(polys, m) == [j \in RowsOf(polys) |-> read_tuples(PointOpenings(polys, j, 0))[m]]
WriteTriples(polys, m) == [j \in RowsOf(polys) |-> write_tuples(PointOpenings(polys, j, 0))[m]]
InitTriples(polys, m) == [i \in Addresses |-> init_tuples(PointOpenings(polys, 0, i))[m]]
FinalTriples(polys, m) == [i \in Addresses |-> final_tuples(PointOpenings(polys, 0, i))[m]]

\* reads + finals = writes + inits, as multisets of triples
TriplesBalanced(polys, m) ==
    BagOfSeq(ReadTriples(polys, m)) (+) BagOfSeq(FinalTriples(polys, m))
        = BagOfSeq(WriteTriples(polys, m)) (+) BagOfSeq(InitTriples(polys, m))

\* the same for the leaves of memory m in the two batches of compute_leaves
LeavesBalanced(leaves, m) ==
    BagOfSeq(LeafGroup(leaves[1], 2 * m)) (+) BagOfSeq(LeafGroup(leaves[2], 2 * m + 1))
        = BagOfSeq(LeafGroup(leaves[1], 2 * m + 1)) (+) BagOfSeq(LeafGroup(leaves[2], 2 * m))


(***************************************************************************)
(* Commitments and the opening accumulator                                 *)
(***************************************************************************)
\* a binding commitment to a polynomial
Commit(poly) == <<"commitment", poly>>
Committed(commitment) == commitment[2]

\* PCS::batch_commit(polys, generators)
batch_commit(polys) == [k \in DOMAIN polys |-> Commit(polys[k])]

\* Initializable::initialize: C, C, num_memories and C default slots, no
\* verifier-computed opening
initialize(default) ==
    [ dim |-> [d \in 0 .. (C - 1) |-> default],
      read_cts |-> [d \in 0 .. (C - 1) |-> default],
      final_cts |-> [d \in 0 .. (C - 1) |-> default],
      E_polys |-> [m \in 0 .. (num_memories - 1) |-> default],
      a_init_final |-> NoneOpening,
      v_init_final |-> NoneOpening ]

\* number of slots of a Vec modelled as a function over 0 .. n-1
VecLen(v) == Cardinality(DOMAIN v)

\* StructuredPolynomialData::read_write_values: dim, then read_cts, then E_polys
read_write_values(stuff) ==
    ToSeq(stuff.dim) \o ToSeq(stuff.read_cts) \o ToSeq(stuff.E_polys)

\* read_write_values_mut().zip(values).for_each(|(dest, src)| *dest = src)
AssignReadWriteValues(stuff, values) ==
    LET nd == VecLen(stuff.dim)
        nr == VecLen(stuff.read_cts)
        slot(current, k) == IF k <= Len(values) THEN values[k] ELSE current
    IN [stuff EXCEPT
          !.dim = [d \in DOMAIN stuff.dim |-> slot(stuff.dim[d], d + 1)],
          !.read_cts = [d \in DOMAIN stuff.read_cts |-> slot(stuff.read_cts[d], nd + d + 1)],
          !.E_polys = [m \in DOMAIN stuff.E_polys |-> slot(stuff.E_polys[m], nd + nr + m + 1)]]

\* the polynomials a commitment set binds
CommittedPolys(commitments) ==
    [ dim |-> [d \in DOMAIN commitments.dim |-> Committed(commitments.dim[d])],
      read_cts |-> [d \in DOMAIN commitments.read_cts |-> Committed(commitments.read_cts[d])],
      final_cts |-> [d \in DOMAIN commitments.final_cts |-> Committed(commitments.final_cts[d])],
      E_polys |-> [m \in DOMAIN commitments.E_polys |-> Committed(commitments.E_polys[m])],
      a_init_final |-> NoneOpening,
      v_init_final |-> NoneOpening ]

\* opening_accumulator.append(polynomials or commitments, point, claims, transcript):
\* the claims go into the transcript, one batching challenge is drawn, and the
\* opening is registered
AccumulatorAppend(acc, subject, point, claims, transcript) ==
    LET drawn == ChallengeScalar(AppendScalars(transcript, claims))
    IN [ acc |-> Append(acc, [ subject |-> subject, point |-> point, claims |-> claims ]),
         transcript |-> drawn.transcript ]

(***************************************************************************)
(* Shared memory-checking engine (MemoryCheckingProver / Verifier)         *)
(***************************************************************************)
RECURSIVE FProd(_)
FProd(q) == IF q = << >> THEN 1 ELSE FMul(Head(q), FProd(Tail(q)))

SeqToFn(q) == [k \in 0 .. (Len(q) - 1) |-> q[k + 1]]

\* MultisetHashes: the product of the leaves of every group
multiset_hashes(leaves) ==
    [ read_hashes |-> [m \in Memories |-> FProd(LeafGroup(leaves[1], 2 * m))],
      write_hashes |-> [m \in Memories |-> FProd(LeafGroup(leaves[1], 2 * m + 1))],
      init_hashes |-> [m \in Memories |-> FProd(LeafGroup(leaves[2], 2 * m))],
      final_hashes |-> [m \in Memories |-> FProd(LeafGroup(leaves[2], 2 * m + 1))] ]

\* multiset_hashes.append_to_transcript(transcript)
AppendHashes(t, h) ==
    AppendScalars(t, ToSeq(h.read_hashes) \o ToSeq(h.write_hashes)
                       \o ToSeq(h.init_hashes) \o ToSeq(h.final_hashes))

\* check_multiset_equality: read_hash * final_hash = write_hash * init_hash
check_multiset_equality(h) ==
    \A m \in Memories :
        FMul(h.read_hashes[m], h.final_hashes[m]) = FMul(h.write_hashes[m], h.init_hashes[m])

\* the claim a grand product over a batch reduces to: every group's multilinear
\* extension at the point r
GrandProductClaims(batch, r) ==
    [g \in 0 .. (batch[2] - 1) |-> Evaluate(SeqToFn(LeafGroup(batch, g)), r)]

\* number of variables of the groups of a batch
GroupVars(batch) == Log2Ceil(Len(batch[1]) \div batch[2])

\* the opening of both provers' memory checking: gamma and tau are drawn, then
\* the protocol name is appended
MemoryCheckingChallenges(transcript) ==
    LET g == ChallengeScalar(transcript)
        t == ChallengeScalar(g.transcript)
    IN [ gamma |-> g.value,
         tau |-> t.value,
         transcript |-> AppendMessage(t.transcript, "SurgeMemCheck") ]

\* the two grand products, run after the hashes are in the transcript: they end at
\* the points r_read_write and r_init_final
GrandProductPoints(read_write_batch, init_final_batch, hashes, transcript) ==
    LET rwp == ChallengeVector(AppendHashes(transcript, hashes), GroupVars(read_write_batch))
        ifp == ChallengeVector(rwp.transcript, GroupVars(init_final_batch))
    IN [ points |-> [ r_read_write |-> rwp.values, r_init_final |-> ifp.values ],
         transcript |-> ifp.transcript ]

\* the two accumulator appends of the openings: read-write values at
\* r_read_write, then init-final values at r_init_final
AccumulateMemoryCheckingOpenings(acc, openings, points, transcript) ==
    LET acc1 == AccumulatorAppend(acc, "read_write", points.r_read_write,
                    ToSeq(openings.dim) \o ToSeq(openings.read_cts) \o ToSeq(openings.E_polys),
                    transcript)
    IN AccumulatorAppend(acc1.acc, "init_final", points.r_init_final,
                         ToSeq(openings.final_cts), acc1.transcript)

\* check_fingerprints: the fingerprint of every opened tuple is the claim of its
\* grand product
check_fingerprints(openings, claims_read_write, claims_init_final, gamma, tau) ==
    \A m \in Memories :
        /\ fingerprint(read_tuples(openings)[m], gamma, tau) = claims_read_write[2 * m]
        /\ fingerprint(write_tuples(openings)[m], gamma, tau) = claims_read_write[2 * m + 1]
        /\ fingerprint(init_tuples(openings)[m], gamma, tau) = claims_init_final[2 * m]
        /\ fingerprint(final_tuples(openings)[m], gamma, tau) = claims_init_final[2 * m + 1]

\* the statement the grand-product argument proves about the committed
\* polynomials: reads + finals = writes + inits for every memory
MultisetArgumentHolds(commitments) ==
    \A m \in Memories : TriplesBalanced(CommittedPolys(commitments), m)

\* what verify_memory_checking accepts: the multiset hashes balance, each grand
\* product multiplies to its hash, the multiset argument holds of the committed
\* polynomials, and the fingerprints of the openings are the grand products' claims
MemoryCheckingAccepts(mc, commitments, openings, points, g, t) ==
    /\ check_multiset_equality(mc.multiset_hashes)
    /\ mc.multiset_hashes = multiset_hashes(<<mc.read_write_grand_product,
                                              mc.init_final_grand_product>>)
    /\ MultisetArgumentHolds(commitments)
    /\ check_fingerprints(openings,
           GrandProductClaims(mc.read_write_grand_product, points.r_read_write),
           GrandProductClaims(mc.init_final_grand_product, points.r_init_final),
           g, t)

(***************************************************************************)
(* State                                                                   *)
(***************************************************************************)
VARIABLES
    ops,                \* the operations handed to prove / generate_witness
    build,              \* "debug": debug assertions compiled in; "release": out
    pc,                 \* the statement the run is at
    panic,              \* the message of the panic that ended the run, or ""
    dim,                \* generate_witness: let mut dim
    read_cts,           \* generate_witness: let mut read_cts
    final_cts,          \* generate_witness: let mut final_cts
    op_index,           \* generate_witness: the row of the loop nest
    dimension_index,    \* generate_witness: the dimension of the loop nest
    polynomials,        \* the SurgePolynomials generate_witness returned
    altered,            \* the <<d, j>> of the read counter overwritten, or Unset
    gamma,              \* memory checking: first challenge
    tau,                \* memory checking: second challenge
    leaves,             \* memory checking: what compute_leaves returned
    par_results,        \* compute_leaves: <<memory_index, vectors>> of the closures
                        \* of the running parallel iterator, in the order they finished
    read_write_leaves,  \* compute_leaves: let read_write_leaves
    init_final_leaves,  \* compute_leaves: let init_final_leaves
    idx_C,              \* index maps: the C they are computed for
    idx_S,              \* index maps: the number of subtables
    idx_next,           \* index maps: the next memory index to map
    idx_map,            \* index maps: the (dimension, subtable) pairs so far
    w_M,                \* one cell: the table size M of the instantiation
    w_address,          \* one cell: the decoded memory_address of the rows
    w_dim,              \* one cell: dim[dimension_index][op_index] of the last row
    w_rows,             \* one cell: rows processed so far (usize, <<high, low>> halves)
    w_ts,               \* one cell: final_cts[dimension_index][memory_address] (u32, halves)
    p_transcript,       \* prove: transcript
    p_acc,              \* prove: opening_accumulator
    commitments,        \* prove: commitments
    r_primary_sumcheck, \* prove: r_primary_sumcheck
    sumcheck_claim,     \* prove: sumcheck_claim
    sumcheck_out,       \* prove: (primary_sumcheck_proof, r_z, sumcheck_openings)
    memory_checking,    \* prove: memory_checking, as far as it is built
    p_points,           \* prove: the points the two grand products end at
    proof,              \* the SurgeProof handed to verify
    tampered,           \* the field of the proof altered on the way, or None
    v_transcript,       \* verify: transcript
    v_acc,              \* verify: opening_accumulator
    v_r_primary_sumcheck, \* verify: r_primary_sumcheck
    v_sumcheck,         \* verify: (claim_last, r_z)
    v_mc,               \* verify: the challenges of verify_memory_checking
    result              \* what verify returned: "Ok", "Err", or None

inputVars == <<ops, build>>
gwVars == <<dim, read_cts, final_cts, op_index, dimension_index>>
witVars == <<polynomials, altered>>
parVars == <<par_results, read_write_leaves, init_final_leaves>>
leafVars == <<gamma, tau, leaves, parVars>>
widthVars == <<w_M, w_address, w_dim, w_rows, w_ts>>
idxVars == <<idx_C, idx_S, idx_next, idx_map, widthVars>>
proverVars == <<p_transcript, p_acc, commitments, r_primary_sumcheck, sumcheck_claim,
                sumcheck_out, memory_checking, p_points, proof>>
verifierVars == <<tampered, v_transcript, v_acc, v_r_primary_sumcheck, v_sumcheck,
                  v_mc, result>>
\* what generate_witness never touches
restVars == <<leafVars, idxVars, proverVars, verifierVars>>
vars == <<inputVars, pc, panic, gwVars, witVars, leafVars, idxVars, proverVars,
          verifierVars>>

\* let num_lookups = ops.len().next_power_of_two()
num_lookups == NextPowerOfTwo(Len(ops))
Rows == 0 .. (num_lookups - 1)

(***************************************************************************)
(* generate_witness                                                        *)
(***************************************************************************)
\* where the two row loops and the construction of E continue at row i
LoopPc(i) ==
    IF i < Len(ops) THEN "gw_real"
    ELSE IF i < num_lookups THEN "gw_fake" ELSE "gw_E"

\* the (row, dimension) loop nest moves on by one dimension
AdvanceLoop ==
    IF dimension_index + 1 < C
    THEN /\ dimension_index' = dimension_index + 1
         /\ op_index' = op_index
         /\ pc' = pc
    ELSE /\ dimension_index' = 0
         /\ op_index' = op_index + 1
         /\ pc' = LoopPc(op_index + 1)

\* let mut dim = vec![vec![0; num_lookups]; C]; read_cts, final_cts likewise
GW_Alloc ==
    /\ pc = "gw_alloc"
    /\ dim' = [d \in Dims |-> [j \in Rows |-> 0]]
    /\ read_cts' = [d \in Dims |-> [j \in Rows |-> 0]]
    /\ final_cts' = [d \in Dims |-> [a \in Addresses |-> 0]]
    /\ op_index' = 0
    /\ dimension_index' = 0
    /\ pc' = LoopPc(0)
    /\ UNCHANGED <<inputVars, panic, witVars, leafVars, idxVars, proverVars,
                   verifierVars>>

TouchSkipIncrement(address) ==
    /\ read_cts' = [read_cts EXCEPT ![dimension_index][op_index] =
                        final_cts[dimension_index][address]]
    /\ final_cts' = final_cts
\* let ts = final_cts[d][a]; read_cts[d][row] = ts; final_cts[d][a] = ts + 1;
Touch(address) ==
    LET ts == final_cts[dimension_index][address]
        write_timestamp == AddU32(ts, 1)
    IN /\ read_cts' = [read_cts EXCEPT ![dimension_index][op_index] = ts]
       /\ final_cts' = [final_cts EXCEPT ![dimension_index][address] = write_timestamp]

GW_RealUnchecked ==
    /\ pc = "gw_real"
    /\ LET memory_address == to_indices(ops[op_index + 1], dimension_index)
       IN /\ dim' = [dim EXCEPT ![dimension_index][op_index] = AsU16(memory_address)]
          /\ Touch(memory_address % M)
          /\ AdvanceLoop
    /\ UNCHANGED <<inputVars, panic, witVars, leafVars, idxVars, proverVars, verifierVars>>
\* one iteration of `for dimension_index in 0..C` for a real operation
GW_Real ==
    /\ pc = "gw_real"
    /\ LET memory_address == to_indices(ops[op_index + 1], dimension_index)
       IN \/ \* debug_assert!(memory_address < M) fails
             /\ build = "debug"
             /\ memory_address >= M
             /\ pc' = "panic"
             /\ panic' = "debug_assert"
             /\ UNCHANGED <<dim, read_cts, final_cts, op_index, dimension_index>>
          \/ \* the assertion is compiled out: the narrowed address is stored,
             \* then final_cts[dimension_index][memory_address] is out of bounds
             /\ build = "release"
             /\ memory_address >= M
             /\ dim' = [dim EXCEPT ![dimension_index][op_index] = AsU16(memory_address)]
             /\ pc' = "panic"
             /\ panic' = "index_out_of_bounds"
             /\ UNCHANGED <<read_cts, final_cts, op_index, dimension_index>>
          \/ /\ memory_address < M
             /\ dim' = [dim EXCEPT ![dimension_index][op_index] = AsU16(memory_address)]
             /\ Touch(memory_address)
             /\ AdvanceLoop
             /\ UNCHANGED panic
    /\ UNCHANGED <<inputVars, witVars, leafVars, idxVars, proverVars, verifierVars>>

GW_FakeZeroFill ==
    /\ pc = "gw_fake"
    /\ AdvanceLoop
    /\ UNCHANGED <<inputVars, panic, dim, read_cts, final_cts, witVars, leafVars, idxVars,
                   proverVars, verifierVars>>
GW_FakeLastAddress ==
    /\ pc = "gw_fake"
    /\ Touch(M - 1)
    /\ AdvanceLoop
    /\ UNCHANGED <<inputVars, panic, dim, witVars, leafVars, idxVars, proverVars,
                   verifierVars>>
\* one iteration of `for dimension_index in 0..C` for a padded row
GW_Fake ==
    /\ pc = "gw_fake"
    /\ Touch(0)
    /\ AdvanceLoop
    /\ UNCHANGED <<inputVars, panic, dim, witVars, leafVars, idxVars, proverVars,
                   verifierVars>>

ConstructESwapped(E_index) ==
    [j \in Rows |->
        materialized_subtables[memory_to_dimension_index(E_index)]
                              [dim[memory_to_subtable_index(E_index)][j]]]
\* E_evals of memory E_index: the subtable value at the recorded address
ConstructE(E_index) ==
    [j \in Rows |->
        materialized_subtables[memory_to_subtable_index(E_index)]
                              [dim[memory_to_dimension_index(E_index)][j]]]

\* SurgePolynomials { dim, read_cts, final_cts, E_polys, None, None }
GW_ConstructE ==
    /\ pc = "gw_E"
    /\ polynomials' = [ dim |-> dim,
                        read_cts |-> read_cts,
                        final_cts |-> final_cts,
                        E_polys |-> [m \in Memories |-> ConstructE(m)],
                        a_init_final |-> NoneOpening,
                        v_init_final |-> NoneOpening ]
    /\ pc' = "gw_done"
    /\ UNCHANGED <<inputVars, panic, gwVars, altered, leafVars, idxVars, proverVars,
                   verifierVars>>

GenerateWitnessNext == GW_Alloc \/ GW_Real \/ GW_Fake \/ GW_ConstructE

(***************************************************************************)
(* Corruption of a committed read counter: one entry of one read_cts       *)
(* polynomial of the finished witness is overwritten by a different u32    *)
(* before prove goes on with it.  The values tried stay below the field    *)
(* modulus, as every u32 is below the modulus of the program's field.      *)
(***************************************************************************)
CorruptValues == 0 .. (FieldModulus - 2)

CorruptReadCts ==
    /\ pc = "gw_done"
    /\ altered = Unset
    /\ \E d \in Dims, j \in Rows :
         \E x \in CorruptValues \ {polynomials.read_cts[d][j]} :
            /\ polynomials' = [polynomials EXCEPT !.read_cts[d][j] = x]
            /\ altered' = <<d, j>>
    /\ UNCHANGED <<inputVars, pc, panic, gwVars, leafVars, idxVars, proverVars,
                   verifierVars>>

(***************************************************************************)
(* prove                                                                   *)
(***************************************************************************)
\* let mut transcript = ProofTranscript::new(b"Surge transcript");
\* opening_accumulator = new(); transcript.append_message(protocol_name)
P_Start ==
    /\ pc = "p_start"
    /\ p_transcript' = AppendMessage(TranscriptNew("Surge transcript"), "Surge")
    /\ p_acc' = << >>
    /\ pc' = "gw_alloc"
    /\ UNCHANGED <<inputVars, panic, gwVars, witVars, leafVars, idxVars, commitments,
                   r_primary_sumcheck, sumcheck_claim, sumcheck_out, memory_checking,
                   p_points, proof, verifierVars>>

\* commitments = initialize(preprocessing); the trace polynomials are committed
\* and zipped into dim, read_cts, E_polys; final_cts is committed after them
P_Commit ==
    /\ pc = "gw_done"
    /\ LET trace_polys == read_write_values(polynomials)
           trace_comitments == batch_commit(trace_polys)
           zipped == AssignReadWriteValues(initialize(Commit(None)), trace_comitments)
       IN commitments' = [zipped EXCEPT
                            !.final_cts = SeqToFn(batch_commit(ToSeq(polynomials.final_cts)))]
    /\ pc' = "p_claim"
    /\ UNCHANGED <<inputVars, panic, gwVars, witVars, leafVars, idxVars, p_transcript,
                   p_acc, r_primary_sumcheck, sumcheck_claim, sumcheck_out,
                   memory_checking, p_points, proof, verifierVars>>

\* num_rounds = num_lookups.log_2(); r_primary_sumcheck is drawn, the claim is
\* computed against eq(r_primary_sumcheck, .) and appended
P_PrimaryClaim ==
    /\ pc = "p_claim"
    /\ LET num_rounds == Log2Ceil(num_lookups)
           drawn == ChallengeVector(p_transcript, num_rounds)
           eq == EqEvals(drawn.values)
           claim == compute_primary_sumcheck_claim(polynomials, eq)
       IN /\ r_primary_sumcheck' = drawn.values
          /\ sumcheck_claim' = claim
          /\ p_transcript' = AppendScalar(drawn.transcript, claim)
    /\ pc' = "p_sumcheck"
    /\ UNCHANGED <<inputVars, panic, gwVars, witVars, leafVars, idxVars, p_acc,
                   commitments, sumcheck_out, memory_checking, p_points, proof,
                   verifierVars>>

PopNothing(sumcheck_openings) == sumcheck_openings
PopFirst(sumcheck_openings) == Tail(sumcheck_openings)
\* let _ = sumcheck_openings.pop(): the openings without their last entry
PopEq(sumcheck_openings) == SubSeq(sumcheck_openings, 1, Len(sumcheck_openings) - 1)

\* prove_arbitrary over E_polys ++ [eq] with degree g_poly_degree(C) + 1; the eq
\* entry is then removed from the openings
P_Sumcheck ==
    /\ pc = "p_sumcheck"
    /\ LET num_rounds == Log2Ceil(num_lookups)
           eq == EqEvals(r_primary_sumcheck)
           combined_sumcheck_polys ==
               [k \in 1 .. num_memories |->
                   [x \in Rows |-> FromInt(polynomials.E_polys[k - 1][x])]] \o <<eq>>
           out == prove_arbitrary(num_rounds, combined_sumcheck_polys,
                                  g_poly_degree + 1, p_transcript)
       IN /\ sumcheck_out' = [ primary_sumcheck_proof |-> out.proof,
                               r_z |-> out.r,
                               sumcheck_openings |-> PopEq(out.openings) ]
          /\ p_transcript' = out.transcript
    /\ pc' = "p_open"
    /\ UNCHANGED <<inputVars, panic, gwVars, witVars, leafVars, idxVars, p_acc,
                   commitments, r_primary_sumcheck, sumcheck_claim, memory_checking,
                   p_points, proof, verifierVars>>

\* opening_accumulator.append(E_polys, eq(r_z), r_z, sumcheck_openings, transcript)
P_AccumulateOpenings ==
    /\ pc = "p_open"
    /\ LET appended == AccumulatorAppend(p_acc, "E_polys", sumcheck_out.r_z,
                                         sumcheck_out.sumcheck_openings, p_transcript)
       IN /\ p_acc' = appended.acc
          /\ p_transcript' = appended.transcript
    /\ pc' = "p_memcheck"
    /\ UNCHANGED <<inputVars, panic, gwVars, witVars, leafVars, idxVars, commitments,
                   r_primary_sumcheck, sumcheck_claim, sumcheck_out, memory_checking,
                   p_points, proof, verifierVars>>

\* prove_memory_checking, first step: gamma and tau are drawn and the protocol
\* name is appended
P_MemoryCheckingChallenges ==
    /\ pc = "p_memcheck"
    /\ LET drawn == MemoryCheckingChallenges(p_transcript)
       IN /\ gamma' = drawn.gamma
          /\ tau' = drawn.tau
          /\ p_transcript' = drawn.transcript
    /\ pc' = "p_leaves"
    /\ UNCHANGED <<inputVars, panic, gwVars, witVars, leaves, parVars, idxVars, p_acc,
                   commitments, r_primary_sumcheck, sumcheck_claim, sumcheck_out,
                   memory_checking, p_points, proof, verifierVars>>

\* prove_memory_checking, second step: compute_leaves, the multiset hashes of the
\* leaves, and the two grand products over them
P_GrandProducts ==
    /\ pc = "p_leaves"
    /\ leaves' = compute_leaves(polynomials, gamma, tau)
    /\ memory_checking' = [ multiset_hashes |-> multiset_hashes(leaves'),
                            read_write_grand_product |-> leaves'[1],
                            init_final_grand_product |-> leaves'[2] ]
    /\ LET run == GrandProductPoints(leaves'[1], leaves'[2],
                                     memory_checking'.multiset_hashes, p_transcript)
       IN /\ p_points' = run.points
          /\ p_transcript' = run.transcript
    /\ pc' = "p_openings"
    /\ UNCHANGED <<inputVars, panic, gwVars, witVars, gamma, tau, parVars, idxVars, p_acc,
                   commitments, r_primary_sumcheck, sumcheck_claim, sumcheck_out,
                   proof, verifierVars>>

\* prove_memory_checking, last step: every polynomial is opened at the two
\* points; then proof = SurgeProof { commitments, primary_sumcheck, memory_checking }
P_MemoryCheckingOpenings ==
    /\ pc = "p_openings"
    /\ memory_checking' =
          [ multiset_hashes |-> memory_checking.multiset_hashes,
            read_write_grand_product |-> memory_checking.read_write_grand_product,
            init_final_grand_product |-> memory_checking.init_final_grand_product,
            openings |-> OpeningsOf(polynomials, p_points.r_read_write,
                                    p_points.r_init_final) ]
    /\ LET appended == AccumulateMemoryCheckingOpenings(p_acc, memory_checking'.openings,
                                                        p_points, p_transcript)
       IN /\ p_acc' = appended.acc
          /\ p_transcript' = appended.transcript
    /\ proof' = [ commitments |-> commitments,
                  primary_sumcheck |->
                      [ claimed_evaluation |-> sumcheck_claim,
                        sumcheck_proof |-> sumcheck_out.primary_sumcheck_proof,
                        num_rounds |-> Log2Ceil(num_lookups),
                        E_poly_openings |-> sumcheck_out.sumcheck_openings ],
                  memory_checking |-> memory_checking' ]
    /\ pc' = "proved"
    /\ UNCHANGED <<inputVars, panic, gwVars, witVars, leafVars, idxVars, commitments,
                   r_primary_sumcheck, sumcheck_claim, sumcheck_out, p_points,
                   verifierVars>>

ProveNext ==
    \/ P_Start
    \/ P_Commit
    \/ P_PrimaryClaim
    \/ P_Sumcheck
    \/ P_AccumulateOpenings
    \/ P_MemoryCheckingChallenges
    \/ P_GrandProducts
    \/ P_MemoryCheckingOpenings

(***************************************************************************)
(* A proof altered between prove and verify: one opening of the primary    *)
(* sumcheck, or its claimed evaluation, replaced by another field element. *)
(***************************************************************************)
TamperProof ==
    /\ pc = "proved"
    /\ tampered = None
    /\ altered = Unset
    /\ \/ \E m \in 1 .. num_memories :
            \E x \in Field \ {proof.primary_sumcheck.E_poly_openings[m]} :
               /\ proof' = [proof EXCEPT !.primary_sumcheck.E_poly_openings[m] = x]
               /\ tampered' = "E_poly_openings"
       \/ \E x \in Field \ {proof.primary_sumcheck.claimed_evaluation} :
               /\ proof' = [proof EXCEPT !.primary_sumcheck.claimed_evaluation = x]
               /\ tampered' = "claimed_evaluation"
    /\ UNCHANGED <<inputVars, pc, panic, gwVars, witVars, leafVars, idxVars,
                   p_transcript, p_acc, commitments, r_primary_sumcheck,
                   sumcheck_claim, sumcheck_out, memory_checking, p_points,
                   v_transcript, v_acc, v_r_primary_sumcheck, v_sumcheck, v_mc, result>>

(***************************************************************************)
(* verify                                                                  *)
(***************************************************************************)
\* transcript = ProofTranscript::new(b"Surge transcript"); accumulator = new();
\* transcript.append_message(protocol_name)
V_Start ==
    /\ pc = "proved"
    /\ v_transcript' = AppendMessage(TranscriptNew("Surge transcript"), "Surge")
    /\ v_acc' = << >>
    /\ pc' = "v_claim"
    /\ UNCHANGED <<inputVars, panic, gwVars, witVars, leafVars, idxVars, proverVars,
                   tampered, v_r_primary_sumcheck, v_sumcheck, v_mc, result>>

V_PrimaryClaimAppendFirst ==
    /\ pc = "v_claim"
    /\ LET appended == AppendScalar(v_transcript, proof.primary_sumcheck.claimed_evaluation)
           drawn == ChallengeVector(appended, proof.primary_sumcheck.num_rounds)
       IN /\ v_r_primary_sumcheck' = drawn.values
          /\ v_transcript' = drawn.transcript
    /\ pc' = "v_sumcheck"
    /\ UNCHANGED <<inputVars, panic, gwVars, witVars, leafVars, idxVars, proverVars,
                   tampered, v_acc, v_sumcheck, v_mc, result>>
\* r_primary_sumcheck = transcript.challenge_vector(proof.num_rounds);
\* transcript.append_scalar(&proof.claimed_evaluation)
V_PrimaryClaim ==
    /\ pc = "v_claim"
    /\ LET drawn == ChallengeVector(v_transcript, proof.primary_sumcheck.num_rounds)
       IN /\ v_r_primary_sumcheck' = drawn.values
          /\ v_transcript' = AppendScalar(drawn.transcript,
                                          proof.primary_sumcheck.claimed_evaluation)
    /\ pc' = "v_sumcheck"
    /\ UNCHANGED <<inputVars, panic, gwVars, witVars, leafVars, idxVars, proverVars,
                   tampered, v_acc, v_sumcheck, v_mc, result>>

\* (claim_last, r_z) = sumcheck_proof.verify(claimed_evaluation, num_rounds,
\* g_poly_degree(C) + 1, transcript)?
V_Sumcheck ==
    /\ pc = "v_sumcheck"
    /\ LET checked == sumcheck_verify(proof.primary_sumcheck.sumcheck_proof,
                                      proof.primary_sumcheck.claimed_evaluation,
                                      proof.primary_sumcheck.num_rounds,
                                      g_poly_degree + 1, v_transcript)
       IN \/ /\ ~checked.ok
             /\ result' = "Err"
             /\ pc' = "done"
             /\ UNCHANGED <<v_sumcheck, v_transcript>>
          \/ /\ checked.ok
             /\ v_sumcheck' = [ claim_last |-> checked.claim_last, r_z |-> checked.r ]
             /\ v_transcript' = checked.transcript
             /\ pc' = "v_check"
             /\ UNCHANGED result
    /\ UNCHANGED <<inputVars, panic, gwVars, witVars, leafVars, idxVars, proverVars,
                   tampered, v_acc, v_r_primary_sumcheck, v_mc>>

\* eq_eval = EqPolynomial::new(r_primary_sumcheck).evaluate(&r_z)
eq_eval == Evaluate(EqEvals(v_r_primary_sumcheck), v_sumcheck.r_z)

\* assert_eq!(eq_eval * combine_lookups(E_poly_openings), claim_last,
\*            "Primary sumcheck check failed.")
V_CheckClaim ==
    /\ pc = "v_check"
    /\ LET expected == FMul(eq_eval,
                            combine_lookups(proof.primary_sumcheck.E_poly_openings))
       IN \/ /\ expected # v_sumcheck.claim_last
             /\ panic' = "Primary sumcheck check failed."
             /\ pc' = "panic"
          \/ /\ expected = v_sumcheck.claim_last
             /\ pc' = "v_open"
             /\ UNCHANGED panic
    /\ UNCHANGED <<inputVars, gwVars, witVars, leafVars, idxVars, proverVars,
                   verifierVars>>

\* opening_accumulator.append(commitments.E_polys, r_z, E_poly_openings, transcript)
V_AccumulateOpenings ==
    /\ pc = "v_open"
    /\ LET appended == AccumulatorAppend(v_acc, "E_polys", v_sumcheck.r_z,
                                         proof.primary_sumcheck.E_poly_openings,
                                         v_transcript)
       IN /\ v_acc' = appended.acc
          /\ v_transcript' = appended.transcript
    /\ pc' = "v_memcheck"
    /\ UNCHANGED <<inputVars, panic, gwVars, witVars, leafVars, idxVars, proverVars,
                   tampered, v_r_primary_sumcheck, v_sumcheck, v_mc, result>>

\* verify_memory_checking, first step: gamma and tau are drawn and the protocol
\* name is appended
V_MemoryCheckingChallenges ==
    /\ pc = "v_memcheck"
    /\ LET drawn == MemoryCheckingChallenges(v_transcript)
       IN /\ v_mc' = [ gamma |-> drawn.gamma, tau |-> drawn.tau ]
          /\ v_transcript' = drawn.transcript
    /\ pc' = "v_grand_products"
    /\ UNCHANGED <<inputVars, panic, gwVars, witVars, leafVars, idxVars, proverVars,
                   tampered, v_acc, v_r_primary_sumcheck, v_sumcheck, result>>

\* verify_memory_checking, second step: the hashes of the proof are appended and
\* the two grand products are verified down to their points
V_GrandProducts ==
    /\ pc = "v_grand_products"
    /\ LET mc == proof.memory_checking
           run == GrandProductPoints(mc.read_write_grand_product,
                                     mc.init_final_grand_product,
                                     mc.multiset_hashes, v_transcript)
       IN /\ v_mc' = [ gamma |-> v_mc.gamma, tau |-> v_mc.tau, points |-> run.points ]
          /\ v_transcript' = run.transcript
    /\ pc' = "v_openings"
    /\ UNCHANGED <<inputVars, panic, gwVars, witVars, leafVars, idxVars, proverVars,
                   tampered, v_acc, v_r_primary_sumcheck, v_sumcheck, result>>

V_MemoryCheckingResultDiscarded ==
    /\ pc = "v_openings"
    /\ LET mc == proof.memory_checking
           appended == AccumulateMemoryCheckingOpenings(v_acc, mc.openings, v_mc.points,
                                                        v_transcript)
       IN /\ v_acc' = appended.acc
          /\ v_transcript' = appended.transcript
          /\ result' = "Ok"
    /\ pc' = "done"
    /\ UNCHANGED <<inputVars, panic, gwVars, witVars, leafVars, idxVars, proverVars,
                   tampered, v_r_primary_sumcheck, v_sumcheck, v_mc>>
\* verify_memory_checking, last step: the openings are accumulated, the verifier
\* computes a_init_final and v_init_final itself, and the checks decide the
\* Result, which is what verify returns
V_MemoryCheckingResult ==
    /\ pc = "v_openings"
    /\ LET mc == proof.memory_checking
           appended == AccumulateMemoryCheckingOpenings(v_acc, mc.openings, v_mc.points,
                                                        v_transcript)
           openings == compute_verifier_openings(mc.openings, v_mc.points.r_init_final)
       IN /\ v_acc' = appended.acc
          /\ v_transcript' = appended.transcript
          /\ v_mc' = [ gamma |-> v_mc.gamma, tau |-> v_mc.tau, points |-> v_mc.points,
                       openings |-> openings ]
          /\ IF \/ init_tuples(openings) = Panic(UnwrapNone)
                \/ final_tuples(openings) = Panic(UnwrapNone)
             THEN /\ panic' = UnwrapNone
                  /\ result' = result
             ELSE /\ panic' = panic
                  /\ result' =
                       IF MemoryCheckingAccepts(mc, proof.commitments, openings,
                                                v_mc.points, v_mc.gamma, v_mc.tau)
                       THEN "Ok" ELSE "Err"
    /\ pc' = "done"
    /\ UNCHANGED <<inputVars, gwVars, witVars, leafVars, idxVars, proverVars,
                   tampered, v_r_primary_sumcheck, v_sumcheck>>

VerifyNext ==
    \/ V_Start
    \/ V_PrimaryClaim
    \/ V_Sumcheck
    \/ V_CheckClaim
    \/ V_AccumulateOpenings
    \/ V_MemoryCheckingChallenges
    \/ V_GrandProducts
    \/ V_MemoryCheckingResult

(***************************************************************************)
(* compute_leaves on its own: an arbitrary witness of two rows, not        *)
(* necessarily one generate_witness would build, and any gamma and tau     *)
(***************************************************************************)
LeafRows == 0 .. 1

ArbitraryWitness(a, t, v, f) ==
    [ dim |-> [d \in Dims |-> [j \in LeafRows |-> (a[j] + d) % M]],
      read_cts |-> [d \in Dims |-> [j \in LeafRows |-> t[j] + d]],
      final_cts |-> [d \in Dims |-> [i \in Addresses |-> (f + i + d) % (FieldModulus - 1)]],
      E_polys |-> [m \in Memories |-> [j \in LeafRows |-> (v[j] + m) % 3]],
      a_init_final |-> NoneOpening,
      v_init_final |-> NoneOpening ]

ArbitraryWitnesses ==
    { ArbitraryWitness(a, t, v, f) :
        a \in [LeafRows -> {0, M - 1}], t \in [LeafRows -> {0, 5}],
        v \in [LeafRows -> {0, 1}], f \in {0, 3} }

\* let (read_write_leaves, init_final_leaves) = compute_leaves(.., gamma, tau)
LeavesApply ==
    /\ pc = "leaves_in"
    /\ leaves' = compute_leaves(polynomials, gamma, tau)
    /\ pc' = "leaves_out"
    /\ UNCHANGED <<inputVars, panic, gwVars, witVars, gamma, tau, parVars, idxVars,
                   proverVars,
                   verifierVars>>

(***************************************************************************)
(* compute_leaves closure by closure: the closures of a parallel iterator   *)
(* finish in any order; collect() hands back their vectors in the order of  *)
(* the memory indices                                                       *)
(***************************************************************************)
RECURSIVE ParCollectCompletionOrder(_)
ParCollectCompletionOrder(results) ==
    IF results = << >> THEN << >>
    ELSE Head(results)[2] \o ParCollectCompletionOrder(Tail(results))
RECURSIVE ParCollectFrom(_, _)
ParCollectFrom(results, memory_index) ==
    IF memory_index > num_memories - 1 THEN << >>
    ELSE LET k == CHOOSE k \in 1 .. Len(results) : results[k][1] = memory_index
         IN results[k][2] \o ParCollectFrom(results, memory_index + 1)
\* (0..num_memories).into_par_iter().flat_map_iter(..).collect(): the vectors of
\* memory 0, then of memory 1, .., whatever the order the closures finished in
ParCollect(results) == ParCollectFrom(results, 0)

RECURSIVE Concat(_)
\* Vec<Vec<F>>::concat()
Concat(vecs) == IF vecs = << >> THEN << >> ELSE Head(vecs) \o Concat(Tail(vecs))

\* one closure of the running parallel iterator returns
\* vec![read_fingerprints, write_fingerprints] or
\* vec![init_fingerprints, final_fingerprints] for its memory_index
Par_Closure ==
    /\ pc \in {"par_read_write", "par_init_final"}
    /\ \E memory_index \in Memories \ { par_results[k][1] : k \in 1 .. Len(par_results) } :
          par_results' = Append(par_results,
              << memory_index,
                 IF pc = "par_read_write"
                 THEN << ToSeq(read_fingerprints(polynomials, memory_index, gamma, tau)),
                         ToSeq(write_fingerprints(polynomials, memory_index, gamma, tau)) >>
                 ELSE << ToSeq(init_fingerprints(memory_index, gamma, tau)),
                         ToSeq(final_fingerprints(polynomials, memory_index, gamma, tau)) >>
              >>)
    /\ UNCHANGED <<inputVars, pc, panic, gwVars, witVars, gamma, tau, leaves,
                   read_write_leaves, init_final_leaves, idxVars, proverVars,
                   verifierVars>>

\* every closure has returned: collect() yields read_write_leaves and the second
\* iterator starts, or it yields init_final_leaves
Par_Collect ==
    /\ pc \in {"par_read_write", "par_init_final"}
    /\ { par_results[k][1] : k \in 1 .. Len(par_results) } = Memories
    /\ IF pc = "par_read_write"
       THEN /\ read_write_leaves' = ParCollect(par_results)
            /\ par_results' = << >>
            /\ pc' = "par_init_final"
            /\ UNCHANGED init_final_leaves
       ELSE /\ init_final_leaves' = ParCollect(par_results)
            /\ pc' = "par_concat"
            /\ UNCHANGED <<par_results, read_write_leaves>>
    /\ UNCHANGED <<inputVars, panic, gwVars, witVars, gamma, tau, leaves, idxVars,
                   proverVars, verifierVars>>

\* ((read_write_leaves.concat(), 2 * num_memories),
\*  (init_final_leaves.concat(), 2 * num_memories))
Par_Concat ==
    /\ pc = "par_concat"
    /\ leaves' = << << Concat(read_write_leaves), 2 * num_memories >>,
                    << Concat(init_final_leaves), 2 * num_memories >> >>
    /\ pc' = "leaves_out"
    /\ UNCHANGED <<inputVars, panic, gwVars, witVars, gamma, tau, parVars, idxVars,
                   proverVars, verifierVars>>

(***************************************************************************)
(* The index maps on their own: every memory index of [0, C * S) mapped,   *)
(* one after the other, for any C and any number S of subtables            *)
(***************************************************************************)
IndexStep ==
    /\ pc = "index"
    /\ idx_next < NumMemories(idx_C, idx_S)
    /\ idx_map' = Append(idx_map, << MemoryToDimensionIndex(idx_C, idx_next),
                                     MemoryToSubtableIndex(idx_C, idx_next) >>)
    /\ idx_next' = idx_next + 1
    /\ UNCHANGED <<inputVars, pc, panic, gwVars, witVars, leafVars, idx_C, idx_S,
                   widthVars, proverVars, verifierVars>>

(***************************************************************************)
(* One cell of generate_witness at the widths of the source: rows that all  *)
(* decode to the same address of one dimension, processed one after the     *)
(* other from a run that has already processed w_rows of them               *)
(***************************************************************************)
\* the table sizes SurgeProof is instantiated with: const M: usize = 1 << 16
InstantiatedM == { Pow2(16) }

\* the body of `for dimension_index in 0..C` for one more such row:
\* dim = memory_address as u16; ts = final_cts[..]; final_cts[..] = ts + 1
W_Touch ==
    /\ pc = "cell"
    /\ w_rows[2] < MaxTouches \/ w_rows[1] = Pow2(U32Bits \div 2) - 1
    /\ w_dim' = AsU16(w_address)
    /\ w_rows' = IncUsize(w_rows)
    /\ \/ \* ts + 1 fits
          /\ ~OverflowsU32(w_ts)
          /\ w_ts' = IncUsize(w_ts)
          /\ UNCHANGED <<pc, panic>>
       \/ \* overflow checks on: attempt to add with overflow
          /\ OverflowsU32(w_ts)
          /\ build = "debug"
          /\ panic' = "attempt to add with overflow"
          /\ pc' = "panic"
          /\ UNCHANGED w_ts
       \/ \* overflow checks off: the sum wraps
          /\ OverflowsU32(w_ts)
          /\ build = "release"
          /\ w_ts' = WrappingIncU32(w_ts)
          /\ UNCHANGED <<pc, panic>>
    /\ UNCHANGED <<inputVars, gwVars, witVars, leafVars, idx_C, idx_S, idx_next, idx_map,
                   w_M, w_address, proverVars, verifierVars>>

(***************************************************************************)
(* Specifications                                                          *)
(***************************************************************************)
\* nothing of generate_witness has run
InitGW ==
    /\ panic = ""
    /\ dim = << >>
    /\ read_cts = << >>
    /\ final_cts = << >>
    /\ op_index = 0
    /\ dimension_index = 0
    /\ polynomials = Unset
    /\ altered = Unset

InitLeafVars ==
    /\ gamma = None /\ tau = None /\ leaves = None
    /\ par_results = << >> /\ read_write_leaves = << >> /\ init_final_leaves = << >>

InitWidthVars ==
    w_M = M /\ w_address = 0 /\ w_dim = 0 /\ w_rows = <<0, 0>> /\ w_ts = <<0, 0>>

InitIdxVars ==
    /\ idx_C = C /\ idx_S = NUM_SUBTABLES /\ idx_next = 0 /\ idx_map = << >>
    /\ InitWidthVars

InitProtocolVars ==
    /\ p_transcript = Unset
    /\ p_acc = None
    /\ commitments = Unset
    /\ r_primary_sumcheck = None
    /\ sumcheck_claim = None
    /\ sumcheck_out = Unset
    /\ memory_checking = Unset
    /\ p_points = Unset
    /\ proof = Unset
    /\ tampered = None
    /\ v_transcript = Unset
    /\ v_acc = None
    /\ v_r_primary_sumcheck = None
    /\ v_sumcheck = Unset
    /\ v_mc = Unset
    /\ result = None

InitWitness ==
    /\ ops \in OpLists
    /\ build \in Builds
    /\ pc = "gw_alloc"
    /\ InitGW
    /\ InitLeafVars
    /\ InitIdxVars
    /\ InitProtocolVars

\* generate_witness alone, on every explored operation list
SpecWitness == InitWitness /\ [][GenerateWitnessNext]_vars

InitLeaves ==
    /\ ops = << >>
    /\ build = "release"
    /\ pc = "leaves_in"
    /\ panic = ""
    /\ dim = << >>
    /\ read_cts = << >>
    /\ final_cts = << >>
    /\ op_index = 0
    /\ dimension_index = 0
    /\ polynomials \in ArbitraryWitnesses
    /\ altered = Unset
    /\ gamma \in Field
    /\ tau \in Field
    /\ leaves = None
    /\ par_results = << >> /\ read_write_leaves = << >> /\ init_final_leaves = << >>
    /\ InitIdxVars
    /\ InitProtocolVars

\* compute_leaves alone
SpecLeaves == InitLeaves /\ [][LeavesApply]_vars

\* compute_leaves closure by closure, under every schedule of the closures
InitParLeaves ==
    /\ ops = << >>
    /\ build = "release"
    /\ pc = "par_read_write"
    /\ panic = ""
    /\ dim = << >>
    /\ read_cts = << >>
    /\ final_cts = << >>
    /\ op_index = 0
    /\ dimension_index = 0
    /\ polynomials \in
          { ArbitraryWitness(a, t, v, 3) :
              a \in [LeafRows -> {0, M - 1}], t \in {[j \in LeafRows |-> 5 * j]},
              v \in [LeafRows -> {0, 1}] }
    /\ altered = Unset
    /\ gamma \in {2, 3}
    /\ tau \in {0, 5}
    /\ leaves = None
    /\ par_results = << >> /\ read_write_leaves = << >> /\ init_final_leaves = << >>
    /\ InitIdxVars
    /\ InitProtocolVars

ParLeavesNext == Par_Closure \/ Par_Collect \/ Par_Concat

SpecParLeaves == InitParLeaves /\ [][ParLeavesNext]_vars

InitIndex ==
    /\ ops = << >>
    /\ build = "release"
    /\ pc = "index"
    /\ InitGW
    /\ InitLeafVars
    /\ idx_C \in 1 .. MaxC
    /\ idx_S \in 0 .. MaxS
    /\ idx_next = 0
    /\ idx_map = << >>
    /\ InitWidthVars
    /\ InitProtocolVars

\* the index maps alone
SpecIndex == InitIndex /\ [][IndexStep]_vars

\* one cell, for every instantiated table size, addresses at the edges of the
\* u8 and u16 ranges, from no row processed or from just below 2^32 rows
InitCell ==
    /\ ops = << >>
    /\ build \in Builds
    /\ pc = "cell"
    /\ InitGW
    /\ InitLeafVars
    /\ idx_C = C /\ idx_S = NUM_SUBTABLES /\ idx_next = 0 /\ idx_map = << >>
    /\ w_M \in InstantiatedM
    /\ w_address \in { a \in (0 .. 3) \cup { Pow2(k) - 1 : k \in 1 .. 16 }
                             \cup { Pow2(k) : k \in 1 .. 16 } : a < w_M }
    /\ w_rows \in { <<0, 0>>, <<Pow2(U32Bits \div 2) - 1, Pow2(U32Bits \div 2) - MaxTouches>> }
    /\ w_dim = IF w_rows = <<0, 0>> THEN 0 ELSE AsU16(w_address)
    /\ w_ts = w_rows
    /\ InitProtocolVars

SpecCell == InitCell /\ [][W_Touch]_vars

Init ==
    /\ ops \in ProtocolOpLists
    /\ build \in Builds
    /\ pc = "p_start"
    /\ InitGW
    /\ InitLeafVars
    /\ InitIdxVars
    /\ InitProtocolVars

Next == ProveNext \/ GenerateWitnessNext \/ CorruptReadCts \/ TamperProof \/ VerifyNext

\* prove, with generate_witness inside it, then verify on the proof
Spec == Init /\ [][Next]_vars

\* generate_witness has returned its witness, and nothing has altered it
Honest == pc = "gw_done" /\ altered = Unset

(***************************************************************************)
(* Claims                                                                  *)
(***************************************************************************)
\* the address row op_index touches in dimension dimension_index
TouchedAddress ==
    IF pc = "gw_real" THEN to_indices(ops[op_index + 1], dimension_index) ELSE 0

\* C1: every step of generate_witness that processes a (row, dimension), real or
\* padded, stores in read_cts[d][j] the counter held at the touched address just
\* before the step and leaves final_cts[d] at that address equal to
\* read_cts[d][j] + 1; padded rows touch address 0.
C1_WriteTsIsReadTsPlusOne ==
    [][ (pc \in {"gw_real", "gw_fake"} /\ pc' # "panic")
        => /\ read_cts'[dimension_index][op_index]
                = final_cts[dimension_index][TouchedAddress]
           /\ final_cts'[dimension_index][TouchedAddress]
                = read_cts'[dimension_index][op_index] + 1 ]_vars

\* a padded row has been processed at address 0 after three real touches of it
C1_Witness ==
    /\ pc = "gw_E"
    /\ Len(ops) = 3
    /\ read_cts[0][3] = 3
    /\ final_cts[0][0] = 4

\* C2: for the witness generate_witness returns, for every memory, reads + finals
\* = writes + inits as multisets of (a, v, t) triples, and as multisets of the
\* leaves of compute_leaves for every gamma and tau.
C2_MultisetIdentity ==
    Honest =>
        /\ \A m \in Memories : TriplesBalanced(polynomials, m)
        /\ \A g \in Field, t \in Field :
              \A m \in Memories : LeavesBalanced(compute_leaves(polynomials, g, t), m)

\* an honest witness with padding, a repeated address and distinct addresses
C2_Witness ==
    /\ Honest
    /\ Len(ops) = 3
    /\ polynomials.read_cts[1][3] = 1
    /\ polynomials.final_cts[0][3] = 2

\* C5: for any gamma and tau and any witness, in the batches compute_leaves
\* returns: write leaf - read leaf = gamma^2 and the read leaf is the fingerprint
\* of the row's (dim, E, read_cts), for every memory and row; final leaf - init
\* leaf = final_cts[dim(memory)][i] * gamma^2 and the init leaf is
\* fingerprint((i, subtable[i], 0)), for every memory and address.
C5_FingerprintAlgebra ==
    pc = "leaves_out" =>
        \A m \in Memories :
            LET reads == LeafGroup(leaves[1], 2 * m)
                writes == LeafGroup(leaves[1], 2 * m + 1)
                inits == LeafGroup(leaves[2], 2 * m)
                finals == LeafGroup(leaves[2], 2 * m + 1)
                d == memory_to_dimension_index(m)
            IN /\ \A j \in RowsOf(polynomials) :
                    /\ FSub(writes[j + 1], reads[j + 1]) = FSquare(gamma)
                    /\ reads[j + 1] =
                         fingerprint(<< FromInt(polynomials.dim[d][j]),
                                        FromInt(polynomials.E_polys[m][j]),
                                        FromInt(polynomials.read_cts[d][j]) >>,
                                     gamma, tau)
               /\ \A i \in Addresses :
                    /\ FSub(finals[i + 1], inits[i + 1])
                         = FMul(FromInt(polynomials.final_cts[d][i]), FSquare(gamma))
                    /\ inits[i + 1] =
                         fingerprint(<< FromInt(i),
                                        FromInt(materialized_subtables
                                                  [memory_to_subtable_index(m)][i]),
                                        0 >>,
                                     gamma, tau)

\* leaves were computed with gamma^2 # gamma for a witness whose counters are not
\* those of any run of generate_witness
C5_Witness ==
    /\ pc = "leaves_out"
    /\ gamma = 3
    /\ tau = 5
    /\ polynomials.read_cts[0][0] = 5
    /\ polynomials.final_cts[1][1] = 5

\* q is an initial segment of p
IsPrefix(q, p) == Len(q) <= Len(p) /\ SubSeq(p, 1, Len(q)) = q

\* nothing was altered: neither the witness prove works from nor its proof
Untouched == altered = Unset /\ tampered = None

\* C3: on the proof prove returns, verify's transcript is at every step an
\* initial segment of prove's, interaction by interaction and argument by
\* argument: new, the protocol name, log2(N) challenge draws, the claimed
\* evaluation, then the sumcheck rounds, the E openings and memory checking; at
\* the end the two transcripts are the same, and every challenge verify derived
\* (r_primary_sumcheck, r_z, gamma, tau, the two grand-product points) is prove's.
C3_VerifyReplaysTranscript ==
    (Untouched /\ v_transcript # Unset) =>
        /\ IsPrefix(v_transcript.log, p_transcript.log)
        /\ v_transcript.log[1] = <<"new", "Surge transcript">>
        /\ v_transcript.log[2] = <<"append_message", "Surge">>
        /\ v_r_primary_sumcheck # None =>
             /\ v_r_primary_sumcheck = r_primary_sumcheck
             /\ Len(v_r_primary_sumcheck) = Log2Ceil(num_lookups)
             /\ \A k \in 1 .. Len(v_r_primary_sumcheck) :
                    v_transcript.log[2 + k] = <<"challenge_scalar">>
             /\ v_transcript.log[3 + Len(v_r_primary_sumcheck)]
                    = <<"append_scalar", sumcheck_claim>>
        /\ v_sumcheck # Unset => v_sumcheck.r_z = sumcheck_out.r_z
        /\ v_acc # None => IsPrefix(v_acc, p_acc)
        /\ v_mc # Unset => (v_mc.gamma = gamma /\ v_mc.tau = tau)
        /\ pc = "done" =>
             /\ v_transcript = p_transcript
             /\ v_mc.points = p_points
             /\ v_acc = p_acc

\* verify has gone through a whole proof of three operations (two rounds)
C3_Witness ==
    /\ Untouched
    /\ pc = "done"
    /\ Len(ops) = 3
    /\ Len(v_r_primary_sumcheck) = 2
    /\ v_transcript = p_transcript

\* C4: for every operation list with all addresses below M (of length 0, a power
\* of two or not), verify on the proof prove returned never fails the primary
\* sumcheck final check, and what it returns is Ok: the sumcheck verifies and
\* memory checking accepts.
C4_Completeness ==
    Untouched =>
        /\ panic # "Primary sumcheck check failed."
        /\ pc \in {"v_open", "v_memcheck", "v_grand_products", "v_openings", "done"} =>
             FMul(eq_eval, combine_lookups(proof.primary_sumcheck.E_poly_openings))
                 = v_sumcheck.claim_last
        /\ pc = "done" => result = "Ok"

\* verify returned Ok on a proof for three operations, padded to four rows
C4_Witness ==
    /\ Untouched
    /\ pc = "done"
    /\ result = "Ok"
    /\ Len(ops) = 3
    /\ num_lookups = 4

\* C6: for every C >= 1 and every number S of subtables, the pairs
\* (memory_to_dimension_index(i), memory_to_subtable_index(i)) of the memory
\* indices i mapped so far lie in [0, C) x [0, S) and are pairwise distinct; once
\* all of [0, C * S) is mapped, the pairs are all of [0, C) x [0, S).
C6_IndexBijection ==
    pc = "index" =>
        /\ \A k \in 1 .. Len(idx_map) :
              /\ idx_map[k][1] \in 0 .. (idx_C - 1)
              /\ idx_map[k][2] \in 0 .. (idx_S - 1)
        /\ \A k, l \in 1 .. Len(idx_map) : k # l => idx_map[k] # idx_map[l]
        /\ idx_next = idx_C * idx_S =>
              { idx_map[k] : k \in 1 .. Len(idx_map) }
                  = (0 .. (idx_C - 1)) \X (0 .. (idx_S - 1))

\* all twelve memory indices of C = 3, S = 4 are mapped
C6_Witness ==
    /\ pc = "index"
    /\ idx_C = 3
    /\ idx_S = 4
    /\ idx_next = 12
    /\ idx_map[12] = <<2, 3>>

\* C7 (as stated): every mismatch verify detects is returned as Err and verify
\* never aborts: a sumcheck round that does not verify, and a final claim that
\* differs from eq(r, r_z) * combine_lookups(E openings), both end verify with
\* result Err, and no step of verify ends in a panic.
C7_MismatchSurfacedAsFailure ==
    [][ /\ (pc \in {"v_claim", "v_sumcheck", "v_check", "v_open", "v_memcheck",
                    "v_grand_products", "v_openings"}) => pc' # "panic"
        /\ (/\ pc = "v_check"
            /\ FMul(eq_eval, combine_lookups(proof.primary_sumcheck.E_poly_openings))
                  # v_sumcheck.claim_last)
            => (pc' = "done" /\ result' = "Err") ]_vars

C9_NeverRecordsBadAddress ==
    [][ (pc = "gw_real" /\ TouchedAddress >= M)
        => /\ pc' = "panic"
           /\ dim' = dim
           /\ read_cts' = read_cts
           /\ final_cts' = final_cts ]_vars

\* C9 (amended): a step of generate_witness on an address >= M fails at that
\* operation in every build, updates no counter and returns no witness; a build
\* with debug assertions writes nothing, a build without them has stored the
\* address, narrowed to u16, in dim before the counter lookup fails.  Nothing runs
\* after the failure.
C9_FailsFastOnBadAddress ==
    [][ /\ pc # "panic"
        /\ (pc = "gw_real" /\ TouchedAddress >= M)
            => /\ pc' = "panic"
               /\ read_cts' = read_cts
               /\ final_cts' = final_cts
               /\ polynomials' = Unset
               /\ build = "debug" => (dim' = dim /\ panic' = "debug_assert")
               /\ build = "release" =>
                    /\ dim' = [dim EXCEPT ![dimension_index][op_index]
                                              = AsU16(TouchedAddress)]
                    /\ panic' = "index_out_of_bounds" ]_vars

\* a release build has failed on the second dimension of an operation, with the
\* out-of-range address in dim and the first dimension's counter updated
C9_Witness ==
    /\ pc = "panic"
    /\ build = "release"
    /\ dimension_index = 1
    /\ dim[1][op_index] = M + 1
    /\ final_cts[0][1] = 1
    /\ final_cts[1] = [a \in Addresses |-> 0]

\* p is a power of two
IsPowerOfTwo(p) == \E e \in 0 .. p : Pow2(e) = p

\* the smallest power of two >= n
SmallestPowerOfTwoAtLeast(n) ==
    CHOOSE p \in 1 .. (2 * n + 1) :
        /\ IsPowerOfTwo(p)
        /\ p >= n
        /\ \A q \in 1 .. (p - 1) : IsPowerOfTwo(q) => q < n

\* the slots of a polynomial set: how many dim, read_cts, final_cts and E_polys
SlotShape(stuff) ==
    << DOMAIN stuff.dim, DOMAIN stuff.read_cts, DOMAIN stuff.final_cts,
       DOMAIN stuff.E_polys >>

C11_EValuesAreSubtableLookups ==
    pc = "gw_done" =>
        \A m \in 0 .. (num_memories - 1) : \A j \in 0 .. (num_lookups - 1) :
            LET subtable == materialized_subtables[m \div C]
                address == IF j < Len(ops) THEN to_indices(ops[j + 1], m % C) ELSE 0
            IN /\ polynomials.E_polys[m][j] = subtable[polynomials.dim[m % C][j]]
               /\ polynomials.dim[m % C][j] = address
               /\ polynomials.E_polys[m][j] = subtable[address]

\* a witness of four rows whose memories 0 .. 3 read 0, 3, 0, 3 on row 0 (the
\* two subtables differ there) and address 0 on the padded row 3
C11_Witness ==
    /\ pc = "gw_done"
    /\ Len(ops) = 3
    /\ ops[1] = <<0, 3>>
    /\ polynomials.E_polys[0][0] = 0
    /\ polynomials.E_polys[2][0] = 1
    /\ polynomials.E_polys[3][0] = 1
    /\ polynomials.E_polys[3][3] = 1

\* C12: a_init_final and v_init_final are None in the polynomials
\* generate_witness returns, in the commitments prove builds and in the openings
\* the proof carries; evaluating init_tuples or final_tuples on those is the
\* unwrap panic, never a value.  Both are Some only in the verifier's openings,
\* as compute_verifier_openings set them from r_init_final, and it is on those
\* that verify evaluates the two tuple families, so verify never panics there.
C12_VerifierComputedOpenings ==
    LET absent(stuff) == ~is_some(stuff.a_init_final) /\ ~is_some(stuff.v_init_final)
        present(stuff) == is_some(stuff.a_init_final) /\ is_some(stuff.v_init_final)
    IN /\ polynomials # Unset => absent(polynomials)
       /\ commitments # Unset => absent(commitments)
       /\ proof # Unset =>
            /\ absent(proof.commitments)
            /\ absent(proof.memory_checking.openings)
            /\ init_tuples(proof.memory_checking.openings) = Panic(UnwrapNone)
            /\ final_tuples(proof.memory_checking.openings) = Panic(UnwrapNone)
       /\ panic # UnwrapNone
       /\ (pc = "done" /\ v_mc # Unset) =>
            /\ present(v_mc.openings)
            /\ v_mc.openings.a_init_final
                 = Some(IdentityEvaluate(v_mc.points.r_init_final))
            /\ \A s \in 0 .. (NUM_SUBTABLES - 1) :
                 v_mc.openings.v_init_final[1][s]
                   = Evaluate(materialized_subtables[s], v_mc.points.r_init_final)
            /\ init_tuples(v_mc.openings) # Panic(UnwrapNone)
            /\ final_tuples(v_mc.openings) # Panic(UnwrapNone)
            /\ \A m \in 0 .. (num_memories - 1) :
                 /\ init_tuples(v_mc.openings)[m][1] \in Field
                 /\ final_tuples(v_mc.openings)[m][2] \in Field

\* verify ran its memory checking on a three-operation proof: the proof's
\* openings carry neither field, the verifier's carry both
C12_Witness ==
    /\ pc = "done"
    /\ result = "Ok"
    /\ Len(ops) = 3
    /\ v_mc # Unset
    /\ is_some(v_mc.openings.a_init_final)
    /\ is_some(v_mc.openings.v_init_final)
    /\ ~is_some(proof.memory_checking.openings.v_init_final)
    /\ ~is_some(polynomials.a_init_final)

\* C13: r_primary_sumcheck is drawn after both batch_commit calls, and from a
\* transcript state reached only after the commitments were fixed: when prove is
\* about to call challenge_vector the commitments exist, and the transcript is
\* no longer in the state it had before the witness was built, so that the
\* vector drawn is not the one that state already determined.
C13_ChallengeDrawnAfterCommitments ==
    LET before_witness == AppendMessage(TranscriptNew("Surge transcript"), "Surge")
    IN /\ pc = "p_claim" =>
            /\ commitments # Unset
            /\ p_transcript.state # before_witness.state
       /\ (pc = "p_sumcheck" /\ Len(ops) >= 2) =>
            /\ commitments # Unset
            /\ r_primary_sumcheck
                 # ChallengeVector(before_witness, Log2Ceil(num_lookups)).values

RECURSIVE SumTo(_, _)
\* f[0] + .. + f[n-1] over the integers
SumTo(f, n) == IF n = 0 THEN 0 ELSE SumTo(f, n - 1) + f[n - 1]

\* the address row j touches in dimension d: decoded from the operation on a
\* real row, 0 on a padded row
RowAddress(d, j) == IF j < Len(ops) THEN to_indices(ops[j + 1], d) ELSE 0

\* C14: in the witness generate_witness returns, for every dimension d,
\* read_cts[d][j] is the number of earlier rows touching the address of row j,
\* final_cts[d][a] is the number of rows of [0, N) touching a, every padded row
\* touches address 0 and has dim[d][j] = 0, and the final_cts[d] sum to N.
C14_CountersCountTouches ==
    pc = "gw_done" =>
        \A d \in 0 .. (C - 1) :
            /\ \A j \in 0 .. (num_lookups - 1) :
                 polynomials.read_cts[d][j]
                   = Cardinality({k \in 0 .. (j - 1) : RowAddress(d, k) = RowAddress(d, j)})
            /\ \A a \in 0 .. (M - 1) :
                 polynomials.final_cts[d][a]
                   = Cardinality({j \in 0 .. (num_lookups - 1) : RowAddress(d, j) = a})
            /\ \A j \in Len(ops) .. (num_lookups - 1) : polynomials.dim[d][j] = 0
            /\ SumTo(polynomials.final_cts[d], M) = num_lookups

\* three operations, two of them on address 0 of dimension 0, and one padded
\* row that also reads address 0: its read counter is 2 and the final one 3
C14_Witness ==
    /\ pc = "gw_done"
    /\ Len(ops) = 3
    /\ ops[1][1] = 0 /\ ops[2][1] = 3 /\ ops[3][1] = 0
    /\ polynomials.read_cts[0][2] = 1
    /\ polynomials.read_cts[0][3] = 2
    /\ polynomials.final_cts[0][0] = 3
    /\ polynomials.final_cts[0][3] = 1

\* C15: whatever the order in which the per-memory closures of compute_leaves
\* finish, the read/write batch is, for memory 0, 1, .. in that order, the N
\* read leaves of the memory followed by its N write leaves, rows in order; the
\* init/final batch is, in the same memory order, the M init leaves followed
\* by the M final leaves; each batch is reported with 2 * num_memories groups;
\* so the result is the one the closures give when run one after the other.
C15_LeavesIndependentOfSchedule ==
    pc = "leaves_out" =>
        LET N == Cardinality(RowsOf(polynomials))
            rw == leaves[1][1]
            inf == leaves[2][1]
        IN /\ leaves[1][2] = 2 * num_memories
           /\ leaves[2][2] = 2 * num_memories
           /\ Len(rw) = 2 * num_memories * N
           /\ Len(inf) = 2 * num_memories * M
           /\ \A m \in 0 .. (num_memories - 1) :
                /\ \A j \in 0 .. (N - 1) :
                     /\ rw[2 * m * N + j + 1]
                          = read_fingerprints(polynomials, m, gamma, tau)[j]
                     /\ rw[(2 * m + 1) * N + j + 1]
                          = write_fingerprints(polynomials, m, gamma, tau)[j]
                /\ \A i \in 0 .. (M - 1) :
                     /\ inf[2 * m * M + i + 1] = init_fingerprints(m, gamma, tau)[i]
                     /\ inf[(2 * m + 1) * M + i + 1]
                          = final_fingerprints(polynomials, m, gamma, tau)[i]
           /\ leaves = compute_leaves(polynomials, gamma, tau)

\* compute_leaves returned after the closures of its second iterator finished
\* in the order 3, 1, 0, 2
C15_Witness ==
    /\ pc = "leaves_out"
    /\ Len(par_results) = num_memories
    /\ par_results[1][1] = 3
    /\ par_results[2][1] = 1
    /\ par_results[3][1] = 0
    /\ Len(leaves[1][1]) = 2 * num_memories * Cardinality(RowsOf(polynomials))

\* C16: of the num_memories + 1 openings prove_arbitrary returns, prove drops
\* the last one, the opening of eq, and nothing else: the openings it registers
\* with its accumulator and stores as E_poly_openings are num_memories scalars,
\* entry m being E_polys[m] evaluated at r_z, that is the polynomial committed
\* as commitments.E_polys[m]; verify hands the same list, in that order, to
\* combine_lookups and to its accumulator.
C16_OnlyEqOpeningDiscarded ==
    LET opened(polys, r_z) == [k \in 1 .. num_memories |-> Evaluate(polys[k - 1], r_z)]
    IN /\ (sumcheck_out # Unset /\ altered = Unset) =>
            /\ Len(sumcheck_out.sumcheck_openings) = num_memories
            /\ sumcheck_out.sumcheck_openings
                 = opened(polynomials.E_polys, sumcheck_out.r_z)
       /\ (pc = "p_open" /\ altered = Unset) =>
            LET out == prove_arbitrary(
                           Log2Ceil(num_lookups),
                           [k \in 1 .. num_memories |->
                               [x \in Rows |-> FromInt(polynomials.E_polys[k - 1][x])]]
                             \o << EqEvals(r_primary_sumcheck) >>,
                           g_poly_degree + 1,
                           AppendScalar(ChallengeVector(
                               AppendMessage(TranscriptNew("Surge transcript"), "Surge"),
                               Log2Ceil(num_lookups)).transcript, sumcheck_claim))
            IN /\ Len(out.openings) = num_memories + 1
               /\ out.openings = sumcheck_out.sumcheck_openings
                     \o << Evaluate(EqEvals(r_primary_sumcheck), sumcheck_out.r_z) >>
       /\ (pc = "p_memcheck" /\ altered = Unset) =>
            /\ Len(p_acc) = 1
            /\ p_acc[1].point = sumcheck_out.r_z
            /\ p_acc[1].claims = sumcheck_out.sumcheck_openings
       /\ (proof # Unset /\ Untouched) =>
            /\ proof.primary_sumcheck.E_poly_openings = sumcheck_out.sumcheck_openings
            /\ proof.primary_sumcheck.E_poly_openings
                 = opened([m \in 0 .. (num_memories - 1) |->
                              Committed(proof.commitments.E_polys[m])],
                          sumcheck_out.r_z)
       /\ (pc = "v_memcheck" /\ Untouched) =>
            /\ v_sumcheck.r_z = sumcheck_out.r_z
            /\ FMul(eq_eval, combine_lookups(proof.primary_sumcheck.E_poly_openings))
                 = v_sumcheck.claim_last
            /\ Len(v_acc) = 1
            /\ v_acc[1].point = v_sumcheck.r_z
            /\ v_acc[1].claims = proof.primary_sumcheck.E_poly_openings

\* an accepted proof of three operations whose four E openings are not all equal
C16_Witness ==
    /\ pc = "done"
    /\ result = "Ok"
    /\ Untouched
    /\ Len(ops) = 3
    /\ Len(proof.primary_sumcheck.E_poly_openings) = num_memories
    /\ Len(sumcheck_out.r_z) = 2
    /\ proof.primary_sumcheck.E_poly_openings[1] # proof.primary_sumcheck.E_poly_openings[2]
    /\ v_acc[1].claims = p_acc[1].claims

\* the number of rows processed fits a u32
RowsFitU32 == w_rows[1] < Pow2(U32Bits \div 2)

====
